---- MODULE Spec2Model ----
(***************************************************************************)
(* clean_malloc / clean_write: two LD_PRELOAD interposers.                 *)
(*                                                                         *)
(* clean_malloc.c prefixes every block with struct alloc_header and zeroes *)
(* the block in free(); clean_write.c zeroes the caller's buffer after     *)
(* write/sendto/send/sendmsg.                                              *)
(*                                                                         *)
(* The machine is modelled byte by byte.  TLC's integers are 32 bits wide, *)
(* so the machine of the model is a small one: size_t, pointers and        *)
(* unsigned int have SizeMod = 2^10 values, all size_t arithmetic is taken *)
(* modulo SizeMod exactly where the C code computes in size_t, and every   *)
(* field of struct alloc_header occupies one byte of the model's memory.   *)
(***************************************************************************)
EXTENDS Integers, Sequences, FiniteSets, TLC

(* ------------------------------------------------------------------ *)
(* The machine                                                          *)
(* ------------------------------------------------------------------ *)

\* size_t: unsigned, SizeMod values; all size_t arithmetic wraps modulo it.
SizeMod == 1024

SIZE_MAX == SizeMod - 1

Wrap(x) == ((x % SizeMod) + SizeMod) % SizeMod

NULL == 0

\* #define EXTRA_STATIC_SPACE 128
EXTRA_STATIC_SPACE == 128

\* address of extra_space[0] (chosen by the linker)
ArenaBase == 8

\* the region libc's allocator serves blocks from
HeapBase == 144

HeapSize == 20

\* a caller-owned buffer region (the output interposer's buffers live here)
BufBase == 176

BufSize == 6

ENOMEM == 12

EINVAL == 22

\* getpagesize()
PageSize == 16

ArenaAddrs == ArenaBase .. (ArenaBase + EXTRA_STATIC_SPACE - 1)

HeapAddrs == HeapBase .. (HeapBase + HeapSize - 1)

BufAddrs == BufBase .. (BufBase + BufSize - 1)

\* the addresses backed by memory; an access anywhere else faults
Mapped == ArenaAddrs \cup HeapAddrs \cup BufAddrs

\* the n addresses dst, dst+1, ... (wrapping with the address width)
Range(dst, n) == { Wrap(dst + i) : i \in 0 .. (n - 1) }

InRange(a, dst, n) == Wrap(a - dst) < n

VARIABLES
    mem,                  \* the process's memory: address -> byte, for the non-zero bytes
    CHECK_COOKIE,         \* the compile-time switch #ifdef CHECK_COOKIE
    extra_space_count,    \* static int extra_space_count
    init_done,            \* init_malloc's static int init_done
    real_malloc,          \* "default" (default_malloc) or "libc"
    real_free,            \* "default" (default_free) or "libc"
    real_posix_memalign,  \* "default" (default_posix_memalign) or "libc"
    heap,                 \* libc's allocator: its live blocks [start, len]
    crashed,              \* the process died (SIGSEGV, abort())
    live,                 \* observer: pointers handed to the caller, not yet released
    grants,               \* observer: the regions handed out of extra_space, in order
    calls,                \* observer: how many calls the process has made
    allocs,               \* observer: how many of them were allocation calls
    last,                 \* observer: what the last call of an entry point did
    w_init_done,          \* init_write's static int init_done
    real_write,           \* "default" (default_write) or "libc"
    real_sendto,          \* "default" (default_sendto) or "libc"
    real_sendmsg,         \* "default" (default_sendmsg) or "libc"
    errno,                \* errno
    wlast,                \* observer: what the last call of an output entry point did
    stack,                \* per thread: the frames of the call it is in, innermost last
    dlsyms                \* observer: how often dlsym was called for each symbol

vars == << mem, CHECK_COOKIE, extra_space_count, init_done, real_malloc, real_free,
           real_posix_memalign, heap, crashed, live, grants, calls, allocs, last,
           w_init_done, real_write, real_sendto, real_sendmsg, errno, wlast,
           stack, dlsyms >>

threadVars == << stack, dlsyms >>

mallocVars == << CHECK_COOKIE, extra_space_count, init_done, real_malloc, real_free,
                 real_posix_memalign, heap, live, grants, calls, allocs, last >>

writeVars == << w_init_done, real_write, real_sendto, real_sendmsg, errno, wlast >>

(* ------------------------------------------------------------------ *)
(* Memory accesses                                                      *)
(* ------------------------------------------------------------------ *)

\* the element of a one-element set: Only({ F(x) : x \in { e } }) is F(e) with e
\* evaluated once
Only(S) == CHOOSE x \in S : TRUE

SetMin(S) == CHOOSE x \in S : \A y \in S : x <= y

SetMax(S) == CHOOSE x \in S : \A y \in S : x >= y

\* the last address of the mapped region an address lies in
RegionEnd(a) ==
    IF a \in ArenaAddrs THEN ArenaBase + EXTRA_STATIC_SPACE - 1
    ELSE IF a \in HeapAddrs THEN HeapBase + HeapSize - 1
    ELSE BufBase + BufSize - 1

\* how many of the n bytes at dst, in ascending order, are accessible before
\* the first one that is not mapped (n when all are)
Reach(dst, n) ==
    IF n = 0 THEN 0
    ELSE IF Wrap(dst) \notin Mapped THEN 0
    ELSE LET room == RegionEnd(Wrap(dst)) - Wrap(dst) + 1
         IN IF n < room THEN n ELSE room

\* mem holds the non-zero bytes only: a mapped address outside its domain holds 0
Byte(m, a) == IF a \in DOMAIN m THEN m[a] ELSE 0

\* a load of one byte; a load outside the mapped memory faults (see LoadFaults)
Load(st, a) == Byte(st.mem, Wrap(a))

LoadFaults(a, n) == Reach(a, n) < n

\* the memory m after the stores f: address -> byte
Stored(m, f) ==
    LET nz == { a \in DOMAIN f : f[a] # 0 }
        keep == (DOMAIN m) \ (DOMAIN f)
    IN [a \in keep \cup nz |-> IF a \in nz THEN f[a] ELSE m[a]]

\* memset(dst, c, n): ascending stores; the first unmapped address kills the process
memset(st, dst, c, n) ==
    IF st.crashed THEN st
    ELSE LET k == Reach(dst, n)
         IN [st EXCEPT !.mem = Stored(@, [a \in Range(dst, k) |-> c]),
                       !.crashed = (k < n)]

\* stores of the bytes of a sequence at dst, dst+1, ...
WriteBytes(st, dst, bytes) ==
    IF st.crashed THEN st
    ELSE LET n == Len(bytes)
             k == Reach(dst, n)
         IN [st EXCEPT !.mem = Stored(@, [a \in Range(dst, k) |-> bytes[Wrap(a - dst) + 1]]),
                       !.crashed = (k < n)]

\* the offset in the source whose original byte a bytewise ascending copy stores at
\* offset i of the destination: when the destination starts g bytes above the
\* source, the bytes from offset g on are loaded after they were stored
FwdSource(dst, src, i) ==
    LET g == Wrap(dst - src)
    IN IF g > 0 /\ g <= i THEN i % g ELSE i

\* memcpy(dst, src, n).  Overlapping regions are undefined behaviour: the copy
\* either runs bytewise ascending (ov = "fwd") or as if through a temporary
\* (ov = "snap"); without overlap both are the same copy.
memcpy(st, dst, src, n, ov) ==
    IF st.crashed THEN st
    ELSE LET kd == Reach(dst, n)
             ks == Reach(src, n)
             k  == IF kd < ks THEN kd ELSE ks
         IN [st EXCEPT !.mem = Stored(@, [a \in Range(dst, k) |->
                                 Byte(st.mem, Wrap(src + (IF ov = "fwd"
                                                          THEN FwdSource(dst, src, Wrap(a - dst))
                                                          ELSE Wrap(a - dst))))]),
                       !.crashed = (k < n)]

\* the mapped addresses holding a non-zero byte
NonZero(st) == DOMAIN st.mem

(* ------------------------------------------------------------------ *)
(* struct alloc_header                                                  *)
(* ------------------------------------------------------------------ *)

\* #define ALLOC_COOKIE 0x12345678, as an unsigned int of the model's machine
ALLOC_COOKIE == 305419896 % SizeMod

\* sizeof(struct alloc_header): cookie and dummy only #ifdef CHECK_COOKIE
HeaderSize == IF CHECK_COOKIE THEN 4 ELSE 2

\* offsetof(struct alloc_header, cookie)
OffCookie == 0

\* offsetof(struct alloc_header, ptr)
OffPtr == IF CHECK_COOKIE THEN 2 ELSE 0

\* offsetof(struct alloc_header, requested_size)
OffSize == IF CHECK_COOKIE THEN 3 ELSE 1

\* the bytes of a struct alloc_header value
HeaderBytes(hptr, rsize) ==
    IF CHECK_COOKIE THEN << ALLOC_COOKIE, 0, hptr, rsize >> ELSE << hptr, rsize >>

(* ------------------------------------------------------------------ *)
(* The environment: libc's allocator and the dynamic loader             *)
(* ------------------------------------------------------------------ *)

\* one call the interposer made into libc or the loader (or the arena serving
\* a request), as the observer records it
Ev(st, fn, arg, ret) ==
    [fn |-> fn, arg |-> arg, ret |-> ret, indl |-> st.indl,
     nz |-> IF fn = "free" THEN NonZero(st) ELSE {}]

Log(st, fn, arg, ret) == [st EXCEPT !.ev = Append(@, Ev(st, fn, arg, ret))]

\* the alignment of every block libc's malloc returns (2 * sizeof(size_t))
MallocAlign == 2

\* the bytes libc reserves for a block: a zero-size block still has its own address
Footprint(start, len) == start .. (start + (IF len = 0 THEN 0 ELSE len - 1))

Candidates(h, n, align) ==
    { a \in HeapAddrs :
        /\ a % align = 0
        /\ Footprint(a, n) \subseteq HeapAddrs
        /\ \A b \in h : Footprint(a, n) \cap Footprint(b.start, b.len) = {} }

\* the stale byte libc's allocator leaves at address a of a block it hands out
Stale(a) == 128 + (a % 16)

\* libc hands out the lowest free block of n bytes aligned to align, or nothing
\* (o.fit); the block is not cleared: it holds stale bytes
libc_alloc(st, n, align, o) ==
    Only({ IF o.fit = "fail" \/ c = {}
           THEN [st |-> st, ret |-> NULL]
           ELSE [st |-> WriteBytes([st EXCEPT !.heap = @ \cup { [start |-> SetMin(c), len |-> n] }],
                                   SetMin(c), [i \in 1 .. n |-> Stale(SetMin(c) + i - 1)]),
                 ret |-> SetMin(c)]
           : c \in { Candidates(st.heap, n, align) } })

\* libc's malloc(n)
libc_malloc(st, n, o) ==
    IF st.crashed THEN [st |-> st, ret |-> NULL]
    ELSE Only({ [st |-> Log(r.st, "malloc", n, r.ret), ret |-> r.ret]
                : r \in { libc_alloc(st, n, MallocAlign, o) } })

IsPowerOfTwo(a) == a \in { 2 ^ k : k \in 0 .. 9 }

\* libc's posix_memalign(&ptr, alignment, n): rc and the pointer it stored
\* (ptr stays NULL when it fails)
libc_posix_memalign(st, alignment, n, o) ==
    IF st.crashed THEN [st |-> st, ret |-> ENOMEM, ptr |-> NULL]
    ELSE IF ~IsPowerOfTwo(alignment)
    THEN [st |-> Log(st, "posix_memalign", n, NULL), ret |-> EINVAL, ptr |-> NULL]
    ELSE Only({ [st |-> Log(r.st, "posix_memalign", n, r.ret),
                 ret |-> IF r.ret = NULL THEN ENOMEM ELSE 0, ptr |-> r.ret]
                : r \in { libc_alloc(st, n, alignment, o) } })

\* libc's free(a).  An address that is no live block of libc is undefined
\* behaviour: libc aborts the process or goes on (o.badfree).
libc_free(st, a, o) ==
    IF st.crashed THEN st
    ELSE Only({ IF a = NULL THEN s1
                ELSE IF \E x \in st.heap : x.start = a
                THEN [s1 EXCEPT !.heap = { x \in @ : x.start # a }]
                ELSE [s1 EXCEPT !.crashed = (o.badfree = "abort")]
                : s1 \in { Log(st, "free", a, 0) } })

(* ------------------------------------------------------------------ *)
(* clean_malloc.c                                                       *)
(* ------------------------------------------------------------------ *)

\* #define MIN(a,b) ((a>b) ? b : a)
MIN(a, b) == IF a > b THEN b ELSE a

\* malloc: allocated_size = alloc_header.requested_size + sizeof(alloc_header)
AllocatedSize(size) == Wrap(size + HeaderSize)

\* calloc: size * nmemb
CallocSize(nmemb, size) == Wrap(size * nmemb)

\* free: (ptr - store_ptr->ptr) + store_ptr->requested_size
FreeSpan(ptr, hptr, rsize) == Wrap(Wrap(ptr - hptr) + rsize)

\* posix_memalign: sizeof(alloc_header) rounded up to a multiple of alignment
RoundedHeader(alignment) ==
    Wrap(((HeaderSize \div alignment) + (IF HeaderSize % alignment # 0 THEN 1 ELSE 0))
         * alignment)

\* posix_memalign: allocated_size
AlignedAllocatedSize(alignment, size) == Wrap(RoundedHeader(alignment) + size)

\* posix_memalign: *memptr = alloc_header.ptr + allocated_size - alloc_header.requested_size
AlignedPayload(hptr, allocated, size) == Wrap(Wrap(hptr + allocated) - size)

\* a test of the alignment alone
AlignmentIsZero(memptr, alignment) == alignment = 0

\* posix_memalign: if (!alignment || !memptr)
BadMemalignArgs(memptr, alignment) == alignment = 0 \/ memptr = NULL

\* static void *default_malloc(size_t size), where I is the state init_malloc()
\* leaves when it is called in state st
default_malloc_body(st, size, o, I) ==
    IF Wrap(st.cnt + size) > EXTRA_STATIC_SPACE
    THEN IF I.rm = "default"
         THEN [st |-> Log(I, "refused", size, NULL), ret |-> NULL]
         ELSE libc_malloc(I, size, o)
    ELSE [st |-> Log([st EXCEPT !.cnt = Wrap(@ + size)], "arena", size, ArenaBase + st.cnt),
          ret |-> ArenaBase + st.cnt]

\* void *malloc(size_t size), where r is what real_malloc(allocated_size) did
malloc_body(size, r) ==
    IF r.ret # NULL
    THEN [st |-> WriteBytes(r.st, r.ret, HeaderBytes(r.ret, size)),
          ret |-> Wrap(r.ret + HeaderSize)]
    ELSE [st |-> r.st, ret |-> NULL]

\* void *calloc(size_t nmemb, size_t size), where r is what malloc(size * nmemb) did
calloc_body(nmemb, size, r) ==
    IF r.ret # NULL /\ CallocSize(nmemb, size) # 0
    THEN [st |-> memset(r.st, r.ret, 0, CallocSize(nmemb, size)), ret |-> r.ret]
    ELSE r

\* calloc(nmemb, size) called by dlsym from inside init_malloc: init_done is set,
\* so the init_malloc() of default_malloc returns at once
reentrant_calloc(st, nmemb, size, o) ==
    Only({ calloc_body(nmemb, size, m)
           : m \in { malloc_body(CallocSize(nmemb, size), r)
                     : r \in { IF st.rm = "default"
                               THEN default_malloc_body(st, AllocatedSize(CallocSize(nmemb, size)), o, st)
                               ELSE libc_malloc(st, AllocatedSize(CallocSize(nmemb, size)), o) } } })

\* dlsym(RTLD_NEXT, name): the loader may allocate o.dl bytes with calloc while it
\* runs (its error state), and that calloc is this library's
dlsym(st, name, o) ==
    IF name = "malloc" /\ o.dl # 0
    THEN Only({ Log([r.st EXCEPT !.indl = st.indl], "dlsym", name, IF name \in o.lk THEN 0 ELSE 1)
                : r \in { reentrant_calloc([st EXCEPT !.indl = TRUE], 1, o.dl, o) } })
    ELSE Log(st, "dlsym", name, IF name \in o.lk THEN 0 ELSE 1)

\* init_malloc: ptr = dlsym(RTLD_NEXT, name); if (ptr) real_<name> = ptr;
resolve(st, name, o) ==
    Only({ IF name \in o.lk THEN s
           ELSE IF name = "malloc" THEN [s EXCEPT !.rm = "libc"]
           ELSE IF name = "free" THEN [s EXCEPT !.rf = "libc"]
           ELSE [s EXCEPT !.rpm = "libc"]
           : s \in { dlsym(st, name, o) } })

\* init_malloc without the test of init_done
init_malloc_again(st, o) ==
    IF st.crashed THEN st
    ELSE Only({ resolve(s2, "posix_memalign", o)
                : s2 \in { resolve(s1, "free", o)
                           : s1 \in { resolve([st EXCEPT !.idone = TRUE], "malloc", o) } } })

\* void init_malloc(void)
init_malloc(st, o) ==
    IF st.crashed \/ st.idone THEN st
    ELSE Only({ resolve(s2, "posix_memalign", o)
                : s2 \in { resolve(s1, "free", o)
                           : s1 \in { resolve([st EXCEPT !.idone = TRUE], "malloc", o) } } })

\* static void *default_malloc(size_t size)
default_malloc(st, size, o) ==
    Only({ default_malloc_body(st, size, o, I) : I \in { init_malloc(st, o) } })

\* real_malloc(size): the call through the function pointer
call_real_malloc(st, size, o) ==
    IF st.rm = "default" THEN default_malloc(st, size, o) ELSE libc_malloc(st, size, o)

\* static void default_free(void *ptr)
default_free(st, ptr, o) ==
    Only({ IF s1.rf = "default" THEN s1 ELSE libc_free(s1, ptr, o)
           : s1 \in { init_malloc(st, o) } })

\* real_free(ptr): the call through the function pointer
call_real_free(st, ptr, o) ==
    IF st.rf = "default" THEN default_free(st, ptr, o) ELSE libc_free(st, ptr, o)

\* static int default_posix_memalign(void **memptr, size_t alignment, size_t size)
default_posix_memalign(st, alignment, size, o) ==
    Only({ IF s1.rpm = "default"
           THEN [st |-> s1, ret |-> -ENOMEM, ptr |-> NULL]
           ELSE libc_posix_memalign(s1, alignment, size, o)
           : s1 \in { init_malloc(st, o) } })

\* real_posix_memalign(&alloc_header.ptr, alignment, size): the call through the
\* function pointer
call_real_posix_memalign(st, alignment, size, o) ==
    IF st.rpm = "default"
    THEN default_posix_memalign(st, alignment, size, o)
    ELSE libc_posix_memalign(st, alignment, size, o)

\* void *malloc(size_t size)
malloc_(st, size, o) ==
    Only({ malloc_body(size, r) : r \in { call_real_malloc(st, AllocatedSize(size), o) } })

\* void *calloc(size_t nmemb, size_t size)
calloc_(st, nmemb, size, o) ==
    Only({ calloc_body(nmemb, size, r) : r \in { malloc_(st, CallocSize(nmemb, size), o) } })

\* a header read that takes the tag for granted
HeaderTrusted(st, ptr) ==
    [cookie |-> ALLOC_COOKIE,
     ptr |-> Load(st, Wrap(ptr - HeaderSize) + OffPtr),
     requested_size |-> Load(st, Wrap(ptr - HeaderSize) + OffSize)]

\* free: the header fields free() reads before the pointer it is given
HeaderAt(st, ptr) ==
    [cookie |-> Load(st, Wrap(ptr - HeaderSize) + OffCookie),
     ptr |-> Load(st, Wrap(ptr - HeaderSize) + OffPtr),
     requested_size |-> Load(st, Wrap(ptr - HeaderSize) + OffSize)]

\* void free(void *ptr)
free_(st, ptr, o) ==
    IF ptr = NULL \/ st.crashed THEN st
    ELSE IF LoadFaults(Wrap(ptr - HeaderSize), HeaderSize)
    THEN [st EXCEPT !.crashed = TRUE]
    ELSE Only({ IF CHECK_COOKIE /\ h.cookie # ALLOC_COOKIE
                THEN Log(st, "report", ptr, 0)
                ELSE Only({ call_real_free(z, h.ptr, o)
                            : z \in { memset(st, h.ptr, 0,
                                             FreeSpan(ptr, h.ptr, h.requested_size)) } })
                : h \in { HeaderAt(st, ptr) } })

\* realloc: the copy into the new block, made when there is one
realloc_copy(st, new_ptr, ptr, size, o) ==
    IF new_ptr = NULL THEN st
    ELSE IF LoadFaults(Wrap(ptr - HeaderSize), HeaderSize)
    THEN [st EXCEPT !.crashed = TRUE]
    ELSE memcpy(st, new_ptr, ptr, MIN(size, HeaderAt(st, ptr).requested_size), o.ov)

\* void *realloc(void *ptr, size_t size)
realloc_(st, ptr, size, o) ==
    Only({ IF ptr # NULL
           THEN Only({ [st |-> free_(s1, ptr, o), ret |-> r.ret]
                       : s1 \in { realloc_copy(r.st, r.ret, ptr, size, o) } })
           ELSE r
           : r \in { malloc_(st, size, o) } })

\* posix_memalign: the header stored before the payload, and *memptr set
posix_memalign_store(r, allocated_size, size) ==
    IF r.ret = 0 /\ r.ptr # NULL
    THEN [st |-> WriteBytes([r.st EXCEPT !.out = AlignedPayload(r.ptr, allocated_size, size)],
                            Wrap(AlignedPayload(r.ptr, allocated_size, size) - HeaderSize),
                            HeaderBytes(r.ptr, size)),
          ret |-> r.ret]
    ELSE [st |-> r.st, ret |-> r.ret]

\* int posix_memalign(void **memptr, size_t alignment, size_t size); st.out is the
\* caller's pointer variable when memptr is not NULL
posix_memalign_(st, memptr, alignment, size, o) ==
    IF BadMemalignArgs(memptr, alignment)
    THEN [st |-> st, ret |-> -EINVAL]
    ELSE Only({ posix_memalign_store(r, AlignedAllocatedSize(alignment, size), size)
                : r \in { call_real_posix_memalign([st EXCEPT !.out = NULL], alignment,
                                                   AlignedAllocatedSize(alignment, size), o) } })

\* the address of a pointer variable of the caller (any non-null address)
OutVar == 1

\* void *memalign(size_t boundary, size_t size)
memalign_(st, boundary, size, o) ==
    Only({ [st |-> r.st, ret |-> r.st.out]
           : r \in { posix_memalign_([st EXCEPT !.out = NULL], OutVar, boundary, size, o) } })

\* void *valloc(size_t size)
valloc_(st, size, o) == memalign_(st, PageSize, size, o)

(* ------------------------------------------------------------------ *)
(* The process: callers of the allocation interposer                    *)
(* ------------------------------------------------------------------ *)

\* the largest small request the callers make
MaxSize == 1

\* a request larger than libc's heap of the model, smaller than the arena
BigSize == 100

\* how many blocks the callers hold at once
MaxLive == 2

\* how many regions the arena hands out
MaxGrants == 2

\* how many calls a run of the process makes
MaxCalls == 4

\* how many of them are allocation calls
MaxAllocs == 2

\* the sizes callers request: small ones, a large one, and the largest ones of
\* size_t
Sizes == (0 .. MaxSize) \cup { BigSize, SIZE_MAX - BigSize, SIZE_MAX }

\* the sizes callers request from the aligned entry points
AlignedSizes == { 1, SIZE_MAX }

\* the element counts and element sizes callers pass to calloc
Counts == { 0, 2, 32 }

\* the alignments callers pass: none, powers of two below, at and above the
\* header size, and one that is no power of two
Alignments == { 0, 2, 3, 4, 8 }

\* what the loader does when init_malloc runs: the symbols dlsym(RTLD_NEXT, ...)
\* fails to find (lk), and the bytes dlsym allocates while it looks up the first
\* one (dl): none, a few, more than the arena holds
Loaders ==
    { [lk |-> {}, dl |-> 0], [lk |-> {}, dl |-> 24], [lk |-> {}, dl |-> 160],
      [lk |-> { "malloc" }, dl |-> 0], [lk |-> { "free" }, dl |-> 0],
      [lk |-> { "posix_memalign" }, dl |-> 0] }

\* the byte a caller stores at offset i of a payload
Pat(i) == (i % 5) + 1

\* the machine state the operations work on
Cur ==
    [mem |-> mem, cnt |-> extra_space_count, idone |-> init_done,
     rm |-> real_malloc, rf |-> real_free, rpm |-> real_posix_memalign,
     heap |-> heap, crashed |-> crashed, out |-> NULL, indl |-> FALSE, ev |-> << >>]

\* what the environment decides during one call: the loader's behaviour, whether
\* libc finds memory, and the outcomes of undefined behaviour
Oracles(alloc, release, copy) ==
    { [lk |-> l.lk, dl |-> l.dl, fit |-> f, badfree |-> b, ov |-> v] :
      l \in IF init_done THEN { [lk |-> {}, dl |-> 0] } ELSE Loaders,
      f \in IF alloc THEN { "first", "fail" } ELSE { "first" },
      b \in IF release THEN { "abort", "ignore" } ELSE { "ignore" },
      v \in IF copy THEN { "fwd", "snap" } ELSE { "snap" } }

\* the allocation events of a call
AllocEvents(ev) ==
    { i \in 1 .. Len(ev) : ev[i].fn \in { "malloc", "posix_memalign", "arena" } }

\* the allocation events the entry point itself caused (not dlsym's calloc)
OwnAllocs(ev) == { i \in AllocEvents(ev) : ~ev[i].indl /\ ev[i].ret # NULL }

IsArenaEvent(e) == e.fn = "arena"

\* the regions the arena handed out during a call
ArenaGrants(ev) ==
    LET a == SelectSeq(ev, IsArenaEvent)
    IN [i \in 1 .. Len(a) |-> [off |-> a[i].ret - ArenaBase, len |-> a[i].arg]]

\* the block behind a pointer the entry point returned: the payload pointer, the
\* size the caller asked for, and the address the underlying allocator returned
Grant(ev, p, size) ==
    LET i == SetMax(OwnAllocs(ev))
    IN [p |-> p, size |-> size, blk |-> ev[i].ret,
        via |-> IF ev[i].fn = "arena" THEN "arena" ELSE "libc"]

\* a message header the caller holds no pointer to: msg == NULL
NullMsg == [null |-> TRUE, msg_iov |-> << >>, msg_iovlen |-> 0]

NoBlock == [p |-> NULL, size |-> 0, blk |-> NULL, via |-> "none"]

\* the entry points that allocate
AllocOps == { "malloc", "calloc", "realloc", "posix_memalign", "memalign", "valloc" }

\* the state after a call, and the observer's record of the call
Commit(st, op, a, b, c, ret, lv, blk) ==
    /\ mem' = st.mem
    /\ extra_space_count' = st.cnt
    /\ init_done' = st.idone
    /\ real_malloc' = st.rm
    /\ real_free' = st.rf
    /\ real_posix_memalign' = st.rpm
    /\ heap' = st.heap
    /\ crashed' = st.crashed
    /\ calls' = calls + 1
    /\ allocs' = IF op \in AllocOps THEN allocs + 1 ELSE allocs
    /\ grants' = grants \o ArenaGrants(st.ev)
    /\ Len(grants') <= MaxGrants
    /\ live' = lv
    /\ Cardinality(lv) <= MaxLive
    /\ last' = [op |-> op, a |-> a, b |-> b, c |-> c, ret |-> ret, out |-> st.out,
                ev |-> st.ev, blk |-> blk, pre |-> mem, crashed |-> st.crashed,
                n |-> calls + 1]
    /\ UNCHANGED << CHECK_COOKIE, writeVars, threadVars >>

\* the threads of the process
Threads == { 1, 2 }

\* the entry points that call through a function pointer
Wrappers == { "malloc", "free", "posix_memalign", "write", "sendto", "sendmsg" }

\* the pointers a caller holds after an allocation call returned p
Holding(st, p, size) ==
    IF p # NULL /\ ~st.crashed THEN live \cup { Grant(st.ev, p, size) } ELSE live

\* what a caller's pointer variable holds before it is passed to posix_memalign
OutPoison == SIZE_MAX

Init ==
    /\ mem = << >>
    /\ CHECK_COOKIE \in BOOLEAN
    /\ extra_space_count = 0
    /\ init_done = FALSE
    /\ real_malloc = "default"
    /\ real_free = "default"
    /\ real_posix_memalign = "default"
    /\ heap = {}
    /\ crashed = FALSE
    /\ live = {}
    /\ grants = << >>
    /\ calls = 0
    /\ allocs = 0
    /\ last = [op |-> "none", a |-> 0, b |-> 0, c |-> 0, ret |-> 0, out |-> NULL,
               ev |-> << >>, blk |-> NoBlock, pre |-> << >>, crashed |-> FALSE,
               n |-> 0]
    /\ w_init_done = FALSE
    /\ real_write = "default"
    /\ real_sendto = "default"
    /\ real_sendmsg = "default"
    /\ errno = 0
    /\ wlast = [op |-> "none", buf |-> NULL, count |-> 0, msg |-> NullMsg, ret |-> 0,
                ev |-> << >>, pre |-> << >>, errno |-> 0, crashed |-> FALSE, n |-> 0]
    /\ stack = [t \in Threads |-> << >>]
    /\ dlsyms = [s \in Wrappers |-> 0]

\* the loader runs the constructor
Ctor ==
    /\ ~crashed /\ calls < MaxCalls
    /\ \E o \in Oracles(FALSE, FALSE, FALSE) :
          \E st \in { init_malloc(Cur, o) } :
             Commit(st, "init_malloc", 0, 0, 0, 0, live, NoBlock)

Malloc ==
    /\ ~crashed /\ calls < MaxCalls /\ allocs < MaxAllocs
    /\ Cardinality(live) < MaxLive
    /\ \E size \in Sizes, o \in Oracles(TRUE, FALSE, FALSE) :
          \E r \in { malloc_(Cur, size, o) } :
             Commit(r.st, "malloc", size, 0, 0, r.ret, Holding(r.st, r.ret, size), NoBlock)

Calloc ==
    /\ ~crashed /\ calls < MaxCalls /\ allocs < MaxAllocs
    /\ Cardinality(live) < MaxLive
    /\ \E nmemb \in Counts, size \in Counts, o \in Oracles(TRUE, FALSE, FALSE) :
          \E r \in { calloc_(Cur, nmemb, size, o) } :
             Commit(r.st, "calloc", nmemb, size, 0, r.ret,
                    Holding(r.st, r.ret, nmemb * size), NoBlock)

Free ==
    /\ ~crashed /\ calls < MaxCalls
    /\ \/ \E o \in Oracles(FALSE, FALSE, FALSE) :
             \E st \in { free_(Cur, NULL, o) } :
                Commit(st, "free", NULL, 0, 0, 0, live, NoBlock)
       \/ \E l \in live, o \in Oracles(FALSE, TRUE, FALSE) :
             \E st \in { free_(Cur, l.p, o) } :
                Commit(st, "free", l.p, 0, 0, 0, live \ { l }, l)

Realloc ==
    /\ ~crashed /\ calls < MaxCalls /\ allocs < MaxAllocs
    /\ \/ /\ Cardinality(live) < MaxLive
          /\ \E size \in Sizes, o \in Oracles(TRUE, FALSE, FALSE) :
                \E r \in { realloc_(Cur, NULL, size, o) } :
                   Commit(r.st, "realloc", NULL, size, 0, r.ret,
                          Holding(r.st, r.ret, size), NoBlock)
       \/ \E l \in live, size \in Sizes, o \in Oracles(TRUE, TRUE, TRUE) :
             \E r \in { realloc_(Cur, l.p, size, o) } :
                Commit(r.st, "realloc", l.p, size, 0, r.ret,
                       IF r.ret # NULL /\ ~r.st.crashed
                       THEN (live \ { l }) \cup { Grant(r.st.ev, r.ret, size) }
                       ELSE live \ { l },
                       l)

PosixMemalign ==
    /\ ~crashed /\ calls < MaxCalls /\ allocs < MaxAllocs
    /\ Cardinality(live) < MaxLive
    /\ \E memptr \in { NULL, OutVar }, alignment \in Alignments, size \in AlignedSizes,
          o \in Oracles(TRUE, FALSE, FALSE) :
          \E r \in { posix_memalign_([Cur EXCEPT !.out = OutPoison], memptr, alignment, size, o) } :
             Commit(r.st, "posix_memalign", memptr, alignment, size, r.ret,
                    IF r.ret = 0 /\ memptr # NULL
                    THEN Holding(r.st, r.st.out, size) ELSE live, NoBlock)

Memalign ==
    /\ ~crashed /\ calls < MaxCalls /\ allocs < MaxAllocs
    /\ Cardinality(live) < MaxLive
    /\ \E boundary \in Alignments, size \in AlignedSizes, o \in Oracles(TRUE, FALSE, FALSE) :
          \E r \in { memalign_(Cur, boundary, size, o) } :
             Commit(r.st, "memalign", boundary, size, 0, r.ret,
                    Holding(r.st, r.ret, size), NoBlock)

Valloc ==
    /\ ~crashed /\ calls < MaxCalls /\ allocs < MaxAllocs
    /\ Cardinality(live) < MaxLive
    /\ \E size \in AlignedSizes, o \in Oracles(TRUE, FALSE, FALSE) :
          \E r \in { valloc_(Cur, size, o) } :
             Commit(r.st, "valloc", size, 0, 0, r.ret, Holding(r.st, r.ret, size), NoBlock)

\* a caller stores data in the payload it was given
Store ==
    /\ ~crashed /\ calls < MaxCalls
    /\ \E l \in live :
          \E st \in { WriteBytes(Cur, l.p, [i \in 1 .. l.size |-> Pat(i)]) } :
             Commit(st, "store", l.p, l.size, 0, 0, live, NoBlock)

\* a caller overwrites the tag of the header before a block it holds
Corrupt ==
    /\ ~crashed /\ calls < MaxCalls
    /\ CHECK_COOKIE
    /\ \E l \in live :
          \E st \in { WriteBytes(Cur, Wrap(l.p - HeaderSize) + OffCookie,
                                 << Wrap(ALLOC_COOKIE + 1) >>) } :
             Commit(st, "corrupt", l.p, 0, 0, 0, live, NoBlock)

Next ==
    \/ Ctor
    \/ Malloc
    \/ Calloc
    \/ Free
    \/ Realloc
    \/ PosixMemalign
    \/ Memalign
    \/ Valloc
    \/ Store
    \/ Corrupt

Spec == Init /\ [][Next]_vars

(* ------------------------------------------------------------------ *)
(* clean_write.c                                                        *)
(* ------------------------------------------------------------------ *)

\* int is narrower than size_t, as on the LP64 machines the library is built for:
\* the values of an int are -IntMod/2 .. IntMod/2 - 1
IntMod == 16

\* the conversion of a size_t to int (int count = msg->msg_iovlen)
ToInt(x) == IF x % IntMod >= IntMod \div 2 THEN (x % IntMod) - IntMod ELSE x % IntMod

\* libc's write, sendto or sendmsg: it reads the caller's data and returns what the
\* kernel decides (o.rc), with errno set when that is -1
libc_output(st, fn, buf, count, msg, o) ==
    [st |-> [st EXCEPT !.ev = Append(@, [fn |-> fn, buf |-> buf, count |-> count,
                                          msg |-> msg, mem |-> st.mem, ret |-> o.rc]),
                       !.errno = IF o.rc < 0 THEN ENOMEM ELSE @],
     ret |-> o.rc]

\* void init_write(void)
init_write(st, o) ==
    IF st.idone THEN st
    ELSE [st EXCEPT !.idone = TRUE,
                    !.rw = IF "write" \in o.lk THEN @ ELSE "libc",
                    !.rs = IF "sendto" \in o.lk THEN @ ELSE "libc",
                    !.rg = IF "sendmsg" \in o.lk THEN @ ELSE "libc",
                    !.ev = @ \o << [fn |-> "dlsym", name |-> "write"],
                                   [fn |-> "dlsym", name |-> "sendto"],
                                   [fn |-> "dlsym", name |-> "sendmsg"] >>]

\* static ssize_t default_write(int fd, const void *buf, size_t count)
default_write(st, buf, count, msg, o) ==
    Only({ IF s.rw = "default"
           THEN [st |-> [s EXCEPT !.errno = EINVAL], ret |-> -1]
           ELSE libc_output(s, "write", buf, count, msg, o)
           : s \in { init_write(st, o) } })

\* static ssize_t default_sendto(int sockfd, const void *buf, size_t len, ...)
default_sendto(st, buf, len, msg, o) ==
    Only({ IF s.rs = "default"
           THEN [st |-> [s EXCEPT !.errno = EINVAL], ret |-> -1]
           ELSE libc_output(s, "sendto", buf, len, msg, o)
           : s \in { init_write(st, o) } })

\* static ssize_t default_sendmsg(int sockfd, const struct msghdr *msg, int flags)
default_sendmsg(st, buf, len, msg, o) ==
    Only({ IF s.rg = "default"
           THEN [st |-> [s EXCEPT !.errno = EINVAL], ret |-> -1]
           ELSE libc_output(s, "sendmsg", buf, len, msg, o)
           : s \in { init_write(st, o) } })

\* ssize_t write(int fd, const void *buf, size_t count)
write_(st, buf, count, o) ==
    Only({ [st |-> IF buf # NULL /\ count # 0 THEN memset(r.st, buf, 0, count) ELSE r.st,
            ret |-> r.ret]
           : r \in { IF st.rw = "default"
                     THEN default_write(st, buf, count, NullMsg, o)
                     ELSE libc_output(st, "write", buf, count, NullMsg, o) } })

\* a sendto that clears the bytes the real primitive reports as sent, no more
sendto_scrub_sent(st, buf, len, o) ==
    Only({ [st |-> IF buf # NULL /\ r.ret > 0 THEN memset(r.st, buf, 0, r.ret) ELSE r.st,
            ret |-> r.ret]
           : r \in { IF st.rs = "default"
                     THEN default_sendto(st, buf, len, NullMsg, o)
                     ELSE libc_output(st, "sendto", buf, len, NullMsg, o) } })

\* ssize_t sendto(int sockfd, const void *buf, size_t len, int flags, ...)
sendto_(st, buf, len, o) ==
    Only({ [st |-> IF buf # NULL /\ len # 0 THEN memset(r.st, buf, 0, len) ELSE r.st,
            ret |-> r.ret]
           : r \in { IF st.rs = "default"
                     THEN default_sendto(st, buf, len, NullMsg, o)
                     ELSE libc_output(st, "sendto", buf, len, NullMsg, o) } })

\* ssize_t send(int sockfd, const void *buf, size_t len, int flags)
send_(st, buf, len, o) == sendto_(st, buf, len, o)

RECURSIVE ZeroSegments(_, _, _, _)
\* sendmsg's loop: while (count) { count--; memset(msg->msg_iov[count].iov_base, 0,
\* msg->msg_iov[count].iov_len); }  A negative count indexes before the array,
\* which is undefined: the process dies or the loop is left (ub).
ZeroSegments(st, msg, count, ub) ==
    IF count = 0 \/ st.crashed THEN st
    ELSE IF count < 0 THEN [st EXCEPT !.crashed = (ub = "crash")]
    ELSE ZeroSegments(memset(st, msg.msg_iov[count].iov_base, 0, msg.msg_iov[count].iov_len),
                      msg, count - 1, ub)

\* ssize_t sendmsg(int sockfd, const struct msghdr *msg, int flags).  With msg ==
\* NULL the load of msg->msg_iovlen is undefined: the process dies, or the load
\* yields something and if (msg) skips the loop (o.ub).
sendmsg_(st, msg, o) ==
    Only({ [st |-> IF msg.null
                   THEN [r.st EXCEPT !.crashed = (o.ub = "crash")]
                   ELSE ZeroSegments(r.st, msg, ToInt(msg.msg_iovlen), o.ub),
            ret |-> r.ret]
           : r \in { IF st.rg = "default"
                     THEN default_sendmsg(st, NULL, 0, msg, o)
                     ELSE libc_output(st, "sendmsg", NULL, 0, msg, o) } })

(* ------------------------------------------------------------------ *)
(* The process: callers of the output interposer                        *)
(* ------------------------------------------------------------------ *)

\* the longest buffer a caller passes
MaxLen == 3

\* the most segments of an ordinary message
MaxSegs == 2

\* how many calls a run of the output process makes
MaxWrites == 3

\* the buffers callers pass: none, and two inside the buffer region
Bufs == { NULL, BufBase, BufBase + 2 }

Lens == 0 .. MaxLen

\* the symbols dlsym(RTLD_NEXT, ...) may fail to find when init_write runs
WLookupFailures == { {}, { "write" }, { "sendto" }, { "sendmsg" } }

\* what the real primitive may return for n bytes: all, a part, or an error
Rets(n) == { n, n \div 2, -1 }

\* the segments of the callers' messages: empty ones and ones of data
Segs == { [iov_base |-> b, iov_len |-> n] : b \in { BufBase, BufBase + 3 }, n \in { 0, 2 } }

SegLists == UNION { [1 .. k -> Segs] : k \in 0 .. MaxSegs }

\* the list l followed by empty segments, n segments in all
Padded(l, n) ==
    [i \in 1 .. n |-> IF i <= Len(l) THEN l[i] ELSE [iov_base |-> NULL, iov_len |-> 0]]

\* the messages callers send: no message, ordinary lists of segments, and long
\* lists whose number of segments does not fit an int
Msgs ==
    { NullMsg }
    \cup { [null |-> FALSE, msg_iov |-> l, msg_iovlen |-> Len(l)] : l \in SegLists }
    \cup { [null |-> FALSE, msg_iov |-> Padded(l, IntMod), msg_iovlen |-> IntMod] :
           l \in [1 .. 1 -> Segs] }

RECURSIVE SumLen(_, _)
\* the bytes in the first k segments of a list
SumLen(l, k) == IF k = 0 THEN 0 ELSE l[k].iov_len + SumLen(l, k - 1)

\* the machine state the output operations work on
CurW ==
    [mem |-> mem, idone |-> w_init_done, rw |-> real_write, rs |-> real_sendto,
     rg |-> real_sendmsg, errno |-> errno, crashed |-> crashed, ev |-> << >>]

\* what the environment decides during one call: the lookups' results, the real
\* primitive's return value, and the outcome of undefined behaviour
WOracles(n, undefined) ==
    { [lk |-> l, rc |-> r, ub |-> u] :
      l \in IF w_init_done THEN { {} } ELSE WLookupFailures,
      r \in Rets(n),
      u \in IF undefined THEN { "crash", "skip" } ELSE { "skip" } }

\* the state after a call, and the observer's record of the call
CommitW(st, op, buf, count, msg, ret) ==
    /\ mem' = st.mem
    /\ crashed' = st.crashed
    /\ w_init_done' = st.idone
    /\ real_write' = st.rw
    /\ real_sendto' = st.rs
    /\ real_sendmsg' = st.rg
    /\ errno' = st.errno
    /\ calls' = calls + 1
    /\ wlast' = [op |-> op, buf |-> buf, count |-> count, msg |-> msg, ret |-> ret,
                 ev |-> st.ev, pre |-> mem, errno |-> st.errno, crashed |-> st.crashed,
                 n |-> calls + 1]
    /\ UNCHANGED << CHECK_COOKIE, extra_space_count, init_done, real_malloc, real_free,
                    real_posix_memalign, heap, live, grants, allocs, last, threadVars >>

\* the loader runs the constructor
CtorWrite ==
    /\ ~crashed /\ calls < MaxWrites
    /\ \E o \in WOracles(0, FALSE) :
          \E st \in { init_write(CurW, o) } :
             CommitW(st, "init_write", NULL, 0, NullMsg, 0)

\* a caller fills its buffers with data
Fill ==
    /\ ~crashed /\ calls < MaxWrites
    /\ \E st \in { WriteBytes(CurW, BufBase, [i \in 1 .. BufSize |-> Pat(i)]) } :
          CommitW(st, "fill", BufBase, BufSize, NullMsg, 0)

Write ==
    /\ ~crashed /\ calls < MaxWrites
    /\ \E buf \in Bufs, count \in Lens :
          \E o \in WOracles(count, FALSE) :
             \E r \in { write_(CurW, buf, count, o) } :
                CommitW(r.st, "write", buf, count, NullMsg, r.ret)

Sendto ==
    /\ ~crashed /\ calls < MaxWrites
    /\ \E buf \in Bufs, len \in Lens :
          \E o \in WOracles(len, FALSE) :
             \E r \in { sendto_(CurW, buf, len, o) } :
                CommitW(r.st, "sendto", buf, len, NullMsg, r.ret)

Send ==
    /\ ~crashed /\ calls < MaxWrites
    /\ \E buf \in Bufs, len \in Lens :
          \E o \in WOracles(len, FALSE) :
             \E r \in { send_(CurW, buf, len, o) } :
                CommitW(r.st, "send", buf, len, NullMsg, r.ret)

Sendmsg ==
    /\ ~crashed /\ calls < MaxWrites
    /\ \E msg \in Msgs :
          \E o \in WOracles(SumLen(msg.msg_iov, msg.msg_iovlen), msg.null) :
             \E r \in { sendmsg_(CurW, msg, o) } :
                CommitW(r.st, "sendmsg", NULL, 0, msg, r.ret)

NextWrite ==
    \/ CtorWrite
    \/ Fill
    \/ Write
    \/ Sendto
    \/ Send
    \/ Sendmsg

SpecWrite == Init /\ [][NextWrite]_vars

(* ------------------------------------------------------------------ *)
(* A process that preloads both libraries                               *)
(* ------------------------------------------------------------------ *)

NextBoth ==
    \/ Ctor
    \/ Malloc
    \/ Free
    \/ CtorWrite
    \/ Write

SpecBoth == Init /\ [][NextBoth]_vars

(* ------------------------------------------------------------------ *)
(* The fallbacks and the init hooks statement by statement, for the     *)
(* threads of a process: each step is one statement of one thread       *)
(* ------------------------------------------------------------------ *)

\* how many calls the threads make in a run
MaxThreadCalls == 2

\* the deepest chain of calls: malloc, default_malloc, init_malloc, dlsym's
\* calloc, malloc, default_malloc, init_malloc
MaxDepth == 7

\* no thread's stack grows beyond this
StackCap == MaxDepth + 2

\* the sizes the threads ask malloc for
TSizes == { MaxSize, BigSize }

\* what dlsym allocates with calloc during the first lookup
LoaderAllocs == { l.dl : l \in Loaders }

Fallbacks == { "default_malloc", "default_free", "default_posix_memalign",
               "default_write", "default_sendto", "default_sendmsg" }

Hooks == { "init_malloc", "init_write" }

\* static void *(*real_malloc)(size_t) = default_malloc; ...
FallbackOf(fn) ==
    CASE fn = "malloc" -> "default_malloc"
      [] fn = "free" -> "default_free"
      [] fn = "posix_memalign" -> "default_posix_memalign"
      [] fn = "write" -> "default_write"
      [] fn = "sendto" -> "default_sendto"
      [] fn = "sendmsg" -> "default_sendmsg"

\* the entry point whose function pointer a fallback tests
WrapperOf(fb) == CHOOSE fn \in Wrappers : FallbackOf(fn) = fb

\* the value of real_<fn>
Pointer(fn) ==
    CASE fn = "malloc" -> real_malloc
      [] fn = "free" -> real_free
      [] fn = "posix_memalign" -> real_posix_memalign
      [] fn = "write" -> real_write
      [] fn = "sendto" -> real_sendto
      [] fn = "sendmsg" -> real_sendmsg

\* the init hook a fallback calls
HookOf(fb) ==
    IF fb \in { "default_malloc", "default_free", "default_posix_memalign" }
    THEN "init_malloc" ELSE "init_write"

\* the symbols a hook looks up, in order
Symbols(hook) ==
    IF hook = "init_malloc" THEN << "malloc", "free", "posix_memalign" >>
    ELSE << "write", "sendto", "sendmsg" >>

\* the hook's static int init_done
InitDone(hook) == IF hook = "init_malloc" THEN init_done ELSE w_init_done

\* a test of init_done that never sees it set
InitDoneMissed(hook) == FALSE

\* if (init_done) return;
InitDoneSeen(hook) == InitDone(hook)

\* a frame of fn, at its first statement
Frame(fn, size) ==
    [fn |-> fn, size |-> size, ptr |-> 0, tmp |-> 0, inits |-> 0, reals |-> 0,
     pc |-> IF fn \in Hooks THEN "test"
            ELSE IF fn = "default_malloc" THEN "load"
            ELSE IF fn \in Fallbacks THEN "init"
            ELSE "call"]

\* the frame a thread is executing
Top(t) == stack[t][Len(stack[t])]

\* the thread goes on in its frame, now f
Goto(t, f) == stack' = [stack EXCEPT ![t] = [@ EXCEPT ![Len(@)] = f]]

\* the thread calls g from its frame, which is f when g returns
Call(t, f, g) ==
    /\ Len(stack[t]) < StackCap
    /\ stack' = [stack EXCEPT ![t] = Append([@ EXCEPT ![Len(@)] = f], g)]

\* the thread returns from its frame
Return(t) == stack' = [stack EXCEPT ![t] = SubSeq(@, 1, Len(@) - 1)]

\* what no statement of the fallbacks and hooks touches
procVars == << mem, CHECK_COOKIE, heap, crashed, live, allocs, last, errno, wlast >>

pointerVars == << real_malloc, real_free, real_posix_memalign,
                  real_write, real_sendto, real_sendmsg >>

\* a step that changes the thread's stack only
Local == UNCHANGED << procVars, pointerVars, init_done, w_init_done,
                      extra_space_count, grants, calls, dlsyms >>

\* the calls a thread makes
Entries ==
    { Frame(fn, 0) : fn \in Hooks \cup (Wrappers \ { "malloc" }) }
       \cup { Frame("malloc", size) : size \in TSizes }

\* a thread calls an entry point, or the loader calls a constructor on it
Enter(t) ==
    /\ stack[t] = << >> /\ calls < MaxThreadCalls
    /\ \E f \in Entries : stack' = [stack EXCEPT ![t] = << f >>]
    /\ calls' = calls + 1
    /\ UNCHANGED << procVars, pointerVars, init_done, w_init_done,
                    extra_space_count, grants, dlsyms >>

\* malloc: real_malloc(allocated_size), and so the other entry points; calloc:
\* malloc(size * nmemb)
WrapperCall(t) ==
    /\ stack[t] # << >> /\ Top(t).pc = "call"
    /\ \E f \in { [Top(t) EXCEPT !.pc = "ret"] } :
          IF f.fn = "calloc"
          THEN Call(t, f, Frame("malloc", CallocSize(1, f.size)))
          ELSE IF Pointer(f.fn) = "default"
          THEN Call(t, f, [Frame(FallbackOf(f.fn), 0) EXCEPT
                              !.size = IF f.fn = "malloc" THEN AllocatedSize(f.size) ELSE 0])
          ELSE Goto(t, f)
    /\ Local

\* return ptr; (of an entry point)
WrapperReturn(t) ==
    /\ stack[t] # << >> /\ Top(t).pc = "ret" /\ Top(t).fn \notin Fallbacks
    /\ Return(t)
    /\ Local

\* default_malloc: char *ptr = &extra_space[extra_space_count];
DefaultMallocLoad(t) ==
    /\ stack[t] # << >> /\ Top(t).fn = "default_malloc" /\ Top(t).pc = "load"
    /\ Goto(t, [Top(t) EXCEPT !.ptr = extra_space_count, !.pc = "test"])
    /\ Local

\* default_malloc: if ((extra_space_count + size) > EXTRA_STATIC_SPACE) init_malloc();
DefaultMallocTest(t) ==
    /\ stack[t] # << >> /\ Top(t).fn = "default_malloc" /\ Top(t).pc = "test"
    /\ IF Wrap(extra_space_count + Top(t).size) > EXTRA_STATIC_SPACE
       THEN Call(t, [Top(t) EXCEPT !.pc = "check", !.inits = @ + 1], Frame("init_malloc", 0))
       ELSE Goto(t, [Top(t) EXCEPT !.pc = "add"])
    /\ Local

\* default_malloc: extra_space_count += size; (the load)
DefaultMallocAdd(t) ==
    /\ stack[t] # << >> /\ Top(t).fn = "default_malloc" /\ Top(t).pc = "add"
    /\ Goto(t, [Top(t) EXCEPT !.tmp = extra_space_count, !.pc = "store"])
    /\ Local

\* default_malloc: extra_space_count += size; (the store) return ptr;
DefaultMallocStore(t) ==
    /\ stack[t] # << >> /\ Top(t).fn = "default_malloc" /\ Top(t).pc = "store"
    /\ extra_space_count' = Wrap(Top(t).tmp + Top(t).size)
    /\ grants' = Append(grants, [off |-> Top(t).ptr, len |-> Top(t).size])
    /\ Goto(t, [Top(t) EXCEPT !.pc = "ret"])
    /\ UNCHANGED << procVars, pointerVars, init_done, w_init_done, calls, dlsyms >>

\* default_free, default_posix_memalign, default_write, ...: init_malloc(); or
\* init_write();
FallbackInit(t) ==
    /\ stack[t] # << >> /\ Top(t).fn \in Fallbacks /\ Top(t).pc = "init"
    /\ Call(t, [Top(t) EXCEPT !.pc = "check", !.inits = @ + 1], Frame(HookOf(Top(t).fn), 0))
    /\ Local

\* a fallback: if (real_x == default_x) return <failure>; return real_x(...);
FallbackCheck(t) ==
    /\ stack[t] # << >> /\ Top(t).fn \in Fallbacks /\ Top(t).pc = "check"
    /\ IF Pointer(WrapperOf(Top(t).fn)) = "default"
       THEN Return(t)
       ELSE Goto(t, [Top(t) EXCEPT !.pc = "ret", !.reals = @ + 1])
    /\ Local

\* a fallback returns the arena pointer or what the real primitive returned
FallbackReturn(t) ==
    /\ stack[t] # << >> /\ Top(t).fn \in Fallbacks /\ Top(t).pc = "ret"
    /\ Return(t)
    /\ Local

\* init_malloc, init_write: if (init_done) return;
HookTest(t) ==
    /\ stack[t] # << >> /\ Top(t).fn \in Hooks /\ Top(t).pc = "test"
    /\ IF InitDoneSeen(Top(t).fn)
       THEN Return(t)
       ELSE Goto(t, [Top(t) EXCEPT !.pc = "set"])
    /\ Local

\* init_malloc, init_write: init_done = 1;
HookSet(t) ==
    /\ stack[t] # << >> /\ Top(t).fn \in Hooks /\ Top(t).pc = "set"
    /\ init_done' = (init_done \/ Top(t).fn = "init_malloc")
    /\ w_init_done' = (w_init_done \/ Top(t).fn = "init_write")
    /\ Goto(t, [Top(t) EXCEPT !.pc = "dlsym", !.tmp = 1])
    /\ UNCHANGED << procVars, pointerVars, extra_space_count, grants, calls, dlsyms >>

\* init_malloc, init_write: ptr = dlsym(RTLD_NEXT, name); where the first lookup
\* of init_malloc may call calloc
HookDlsym(t) ==
    /\ stack[t] # << >> /\ Top(t).fn \in Hooks /\ Top(t).pc = "dlsym"
    /\ dlsyms' = [dlsyms EXCEPT ![Symbols(Top(t).fn)[Top(t).tmp]] = @ + 1]
    /\ \E dl \in LoaderAllocs, f \in { [Top(t) EXCEPT !.pc = "assign"] } :
          IF dl # 0 /\ f.fn = "init_malloc" /\ f.tmp = 1
          THEN Call(t, f, Frame("calloc", dl))
          ELSE dl = 0 /\ Goto(t, f)
    /\ UNCHANGED << procVars, pointerVars, init_done, w_init_done,
                    extra_space_count, grants, calls >>

\* init_malloc, init_write: if (ptr) real_x = ptr; and on to the next symbol
HookAssign(t) ==
    /\ stack[t] # << >> /\ Top(t).fn \in Hooks /\ Top(t).pc = "assign"
    /\ \E found \in BOOLEAN, name \in { Symbols(Top(t).fn)[Top(t).tmp] } :
          /\ real_malloc' = IF found /\ name = "malloc" THEN "libc" ELSE real_malloc
          /\ real_free' = IF found /\ name = "free" THEN "libc" ELSE real_free
          /\ real_posix_memalign' =
                IF found /\ name = "posix_memalign" THEN "libc" ELSE real_posix_memalign
          /\ real_write' = IF found /\ name = "write" THEN "libc" ELSE real_write
          /\ real_sendto' = IF found /\ name = "sendto" THEN "libc" ELSE real_sendto
          /\ real_sendmsg' = IF found /\ name = "sendmsg" THEN "libc" ELSE real_sendmsg
    /\ IF Top(t).tmp = 3
       THEN Return(t)
       ELSE Goto(t, [Top(t) EXCEPT !.pc = "dlsym", !.tmp = @ + 1])
    /\ UNCHANGED << procVars, init_done, w_init_done, extra_space_count, grants,
                    calls, dlsyms >>

\* a statement of thread t inside a call
Step(t) ==
    \/ WrapperCall(t)
    \/ WrapperReturn(t)
    \/ DefaultMallocLoad(t)
    \/ DefaultMallocTest(t)
    \/ DefaultMallocAdd(t)
    \/ DefaultMallocStore(t)
    \/ FallbackInit(t)
    \/ FallbackCheck(t)
    \/ FallbackReturn(t)
    \/ HookTest(t)
    \/ HookSet(t)
    \/ HookDlsym(t)
    \/ HookAssign(t)

NextThreads == \E t \in Threads : Enter(t) \/ Step(t)

SpecThreads == Init /\ [][NextThreads]_vars

\* a thread that is inside a call keeps running
SpecThreadsFair == SpecThreads /\ \A t \in Threads : WF_vars(Step(t))

(* ------------------------------------------------------------------ *)
(* Properties of the allocation interposer                              *)
(* ------------------------------------------------------------------ *)

\* the calls of libc's free the last call made
FreeEvents == { i \in 1 .. Len(last.ev) : last.ev[i].fn = "free" }

\* the requests the last call itself made to the underlying allocator
Requests ==
    { i \in 1 .. Len(last.ev) :
        last.ev[i].fn \in { "malloc", "arena", "posix_memalign" } /\ ~last.ev[i].indl }

\* the underlying block of the pointer the last call returned: its start and the
\* length the allocator was asked for
Under ==
    LET i == SetMax(OwnAllocs(last.ev))
    IN [start |-> last.ev[i].ret, len |-> last.ev[i].arg]

\* the addresses from a block's start through the end of its payload
BlockSpan(l) == Range(l.blk, (l.p - l.blk) + l.size)

SameMemory(m1, m2) == \A a \in Mapped : Byte(m1, a) = Byte(m2, a)

\* C1: free(p) of a pointer an entry point returned calls the real free exactly
\* once, with the underlying block's start, and at that moment every byte from
\* the block's start through the end of the payload is zero; free(NULL) changes
\* nothing and calls nothing.  (Stated for a process whose real free is resolved.)
C1_FreeZeroesBlockThenReleasesOnce ==
    (last.op = "free" /\ real_free = "libc") =>
        IF last.a = NULL
        THEN last.ev = << >> /\ SameMemory(mem, last.pre)
        ELSE /\ Cardinality(FreeEvents) = 1
             /\ \A i \in FreeEvents :
                   /\ last.ev[i].arg = last.blk.blk
                   /\ BlockSpan(last.blk) \cap last.ev[i].nz = {}

\* C2: when realloc(p, newSize) of a live p returns NULL, p is still a live block:
\* the bytes from its block's start through the end of its payload are unchanged
\* and the real free was not called.
C2_FailedReallocLeavesBlock ==
    (last.op = "realloc" /\ last.a # NULL /\ last.ret = NULL) =>
        /\ FreeEvents = {}
        /\ \A a \in BlockSpan(last.blk) \cap Mapped : Byte(mem, a) = Byte(last.pre, a)

\* C3: a realloc(p, newSize) of a live p that returns a new block leaves in its
\* first min(old, newSize) payload bytes the bytes p held before the call, and p
\* has been released through free (zeroed, handed to the real free once).
C3_ReallocPreservesPrefix ==
    (last.op = "realloc" /\ last.a # NULL /\ last.ret # NULL /\ ~last.crashed
       /\ real_free = "libc") =>
        /\ \A i \in 0 .. (MIN(last.blk.size, last.b) - 1) :
              Byte(mem, Wrap(last.ret + i)) = Byte(last.pre, Wrap(last.a + i))
        /\ Cardinality(FreeEvents) = 1
        /\ \A i \in FreeEvents : last.ev[i].arg = last.blk.blk

\* C4: a non-null result of calloc(n, k) points to n*k bytes (the product in the
\* integers) that lie inside the underlying block and are all zero.
C4_CallocRegionIsProduct ==
    (last.op = "calloc" /\ last.ret # NULL /\ ~last.crashed) =>
        /\ last.ret >= Under.start
        /\ last.ret + last.a * last.b <= Under.start + Under.len
        /\ \A a \in last.ret .. (last.ret + last.a * last.b - 1) :
              a \in Mapped /\ Byte(mem, a) = 0

\* C5: malloc(s) asks the underlying allocator for exactly s + sizeof(struct
\* alloc_header) bytes, the sum in the integers, so that the s payload bytes of
\* a non-null result lie inside the underlying block.
C5_MallocRequestsSizePlusHeader ==
    (last.op = "malloc") =>
        /\ \A i \in Requests : last.ev[i].arg = last.a + HeaderSize
        /\ (last.ret # NULL) =>
              /\ last.ret >= Under.start
              /\ last.ret + last.a <= Under.start + Under.len

\* the header size rounded up to a multiple of a
RoundUp(a) == ((HeaderSize + a - 1) \div a) * a

\* C6: when posix_memalign(&p, a, s) with a power of two a succeeds, p is a
\* multiple of a, p is the block's start plus the header size rounded up to a
\* multiple of a, and the header before p and the s bytes from p on lie inside
\* the underlying block.
C6_AlignedPayloadInsideBlock ==
    (last.op = "posix_memalign" /\ last.a # NULL /\ last.ret = 0) =>
        /\ last.out % last.b = 0
        /\ last.out = Under.start + RoundUp(last.b)
        /\ last.out - HeaderSize >= Under.start
        /\ last.out + last.c <= Under.start + Under.len

\* C7: posix_memalign with alignment 0 or a null output pointer returns an
\* invalid-argument indication, makes no call of the real posix_memalign (or of
\* anything else), and leaves the caller's pointer variable and the memory as
\* they were.
C7_BadArgumentsRejected ==
    (last.op = "posix_memalign" /\ (last.b = 0 \/ last.a = NULL)) =>
        /\ last.ret \in { EINVAL, -EINVAL }
        /\ last.ev = << >>
        /\ last.out = OutPoison
        /\ SameMemory(mem, last.pre)

\* C7, its case reached: a call with alignment 0 and a valid output pointer
C7_BadAlignmentSeen ==
    /\ last.op = "posix_memalign"
    /\ last.b = 0
    /\ last.a = OutVar
    /\ last.ret # 0

\* C8: posix_memalign returns 0 or a positive error number, EINVAL or ENOMEM, as
\* the wrapped posix_memalign does.
C8_PositiveErrorNumbers ==
    (last.op = "posix_memalign") => last.ret \in { 0, EINVAL, ENOMEM }

\* the tag free(last.a) finds in the header before the pointer
TagFound == Byte(last.pre, Wrap(last.a - HeaderSize) + OffCookie)

ReportEvents == { i \in 1 .. Len(last.ev) : last.ev[i].fn = "report" }

\* C11: with CHECK_COOKIE, free(p) of a non-null p whose header tag is not
\* ALLOC_COOKIE reports it and returns: no memory changes and the real free is
\* not called; with the right tag free goes on to zero and release the block.
C11_BadTagStopsFree ==
    (last.op = "free" /\ last.a # NULL /\ CHECK_COOKIE) =>
        IF TagFound # ALLOC_COOKIE
        THEN /\ Cardinality(ReportEvents) = 1
             /\ FreeEvents = {}
             /\ Len(last.ev) = 1
             /\ SameMemory(mem, last.pre)
        ELSE /\ ReportEvents = {}
             /\ (real_free = "libc" /\ ~last.crashed) => Cardinality(FreeEvents) = 1
             /\ ~last.crashed => Byte(mem, last.blk.blk) = 0

\* C11, its case reached: free of a block whose tag a caller overwrote
C11_BadTagSeen ==
    /\ last.op = "free" /\ last.a # NULL /\ CHECK_COOKIE
    /\ TagFound # ALLOC_COOKIE
    /\ real_free = "libc"
    /\ ReportEvents # {}

\* C12: in every state, the header before every pointer a caller holds has
\* the address the underlying allocator returned for the block, which is not
\* NULL, and the size the caller requested.
C12_LiveHeadersIntact ==
    ~crashed =>
        \A l \in live :
           /\ l.blk # NULL
           /\ Byte(mem, Wrap(l.p - HeaderSize) + OffPtr) = l.blk
           /\ Byte(mem, Wrap(l.p - HeaderSize) + OffSize) = l.size

\* C14: the arena's offset stays within 0 .. EXTRA_STATIC_SPACE and never
\* decreases, and the regions handed out of the arena follow one another from
\* offset 0: each starts where the one before ends and ends inside the arena, at
\* the offset the counter then holds.
C14_ArenaRegionsInOrder ==
    /\ extra_space_count \in 0 .. EXTRA_STATIC_SPACE
    /\ \A i \in 1 .. Len(grants) :
          /\ grants[i].off = (IF i = 1 THEN 0 ELSE grants[i - 1].off + grants[i - 1].len)
          /\ grants[i].off + grants[i].len <= EXTRA_STATIC_SPACE
    /\ Len(grants) > 0 /\ Len(grants) < MaxGrants =>
          extra_space_count = grants[Len(grants)].off + grants[Len(grants)].len

\* the fallback returned NULL for a request the arena could not hold
RefusedEvents == { i \in 1 .. Len(last.ev) : last.ev[i].fn = "refused" }

\* C15: a request to default_malloc that exceeds what is left of the arena is
\* served by the real malloc once the call has resolved it, also when the call
\* comes from inside init_malloc's own lookups.  (Stated for a process whose
\* lookup of malloc succeeds.)
C15_OverflowServedByRealMalloc ==
    (real_malloc = "libc") => RefusedEvents = {}

\* the call made no symbol lookup: init_malloc had run before it
NoLookup == \A i \in 1 .. Len(last.ev) : last.ev[i].fn # "dlsym"

\* C16: after an initialization in which the lookup of a real primitive failed,
\* the entry points that depend on it report failure: malloc, calloc, realloc
\* return NULL when malloc is unresolved, memalign and valloc return NULL and
\* posix_memalign a non-zero value when posix_memalign is unresolved, and no
\* request reaches the unresolved primitive; write, sendto, send and sendmsg
\* return -1 with errno set.
C16_FailedLookupReportsFailure ==
    /\ (init_done /\ NoLookup /\ ~crashed) =>
          /\ (real_malloc = "default" /\ last.op \in { "malloc", "calloc", "realloc" }) =>
                 /\ last.ret = NULL
                 /\ \A i \in 1 .. Len(last.ev) : last.ev[i].fn # "malloc"
          /\ (real_posix_memalign = "default" /\ last.op \in { "memalign", "valloc" }) =>
                 /\ last.ret = NULL
                 /\ \A i \in 1 .. Len(last.ev) : last.ev[i].fn # "posix_memalign"
          /\ (real_posix_memalign = "default" /\ last.op = "posix_memalign") =>
                 last.ret # 0
    /\ (w_init_done /\ wlast.ev = << >>) =>
          /\ (real_write = "default" /\ wlast.op = "write") =>
                 wlast.ret = -1 /\ errno = EINVAL
          /\ (real_sendto = "default" /\ wlast.op \in { "sendto", "send" }) =>
                 wlast.ret = -1 /\ errno = EINVAL
          /\ (real_sendmsg = "default" /\ wlast.op = "sendmsg") =>
                 wlast.ret = -1 /\ errno = EINVAL

\* C18: every address passed to the real free lies in the real allocator's heap;
\* no address inside the static arena extra_space is ever passed to it.
C18_OnlyRealBlocksReleased ==
    \A i \in FreeEvents :
       /\ last.ev[i].arg \in HeapAddrs
       /\ last.ev[i].arg \notin ArenaAddrs

\* the symbol lookups a call of the allocation library made
Lookups(ev) == { i \in 1 .. Len(ev) : ev[i].fn = "dlsym" }

C17_ArenaAndLookupsRaceFree ==
    /\ \A name \in { "malloc", "free", "posix_memalign" } : dlsyms[name] <= 1
    /\ \A i \in 1 .. Len(grants) : grants[i].off + grants[i].len <= extra_space_count
    /\ \A i, j \in 1 .. Len(grants) :
          i < j => \/ grants[i].off + grants[i].len <= grants[j].off
                   \/ grants[j].off + grants[j].len <= grants[i].off

\* C19: every call returns.  No thread's stack is ever deeper than MaxDepth; a
\* fallback calls its init hook at most once and the real primitive at most
\* once, and what a fallback calls is an init hook, never a fallback; and a
\* thread that is inside a call eventually is outside it.
C19_EveryCallReturns ==
    /\ [](\A t \in Threads :
             /\ Len(stack[t]) <= MaxDepth
             /\ \A i \in 1 .. Len(stack[t]) :
                   /\ stack[t][i].inits <= 1
                   /\ stack[t][i].reals <= 1
                   /\ (stack[t][i].fn \in Fallbacks /\ i < Len(stack[t])) =>
                         stack[t][i + 1].fn \in Hooks)
    /\ \A t \in Threads : (stack[t] # << >>) ~> (stack[t] = << >>)

\* C19 (witness): default_malloc, called by dlsym's calloc from inside
\* init_malloc's first lookup, has called init_malloc again
C19_ReenteredFromLookup ==
    \E t \in Threads :
       /\ Len(stack[t]) = MaxDepth
       /\ Top(t).fn = "init_malloc"
       /\ stack[t][3].fn = "init_malloc" /\ stack[t][3].pc = "assign"
       /\ stack[t][6].fn = "default_malloc" /\ stack[t][6].inits = 1

(* ------------------------------------------------------------------ *)
(* Properties of the output interposer                                  *)
(* ------------------------------------------------------------------ *)

\* the calls of a real output primitive the last call made
Delegations == { i \in 1 .. Len(wlast.ev) : wlast.ev[i].fn # "dlsym" }

\* the real primitive behind an entry point
PrimitiveOf(op) == IF op = "write" THEN "write" ELSE "sendto"

ResolvedOf(op) == IF op = "write" THEN real_write ELSE real_sendto

\* C9: write, sendto and send with a buffer and n > 0 call the real primitive
\* once, on the buffer as the caller passed it, leave all n bytes zero and
\* return what the primitive returned (the stub's -1/EINVAL when it is not
\* resolved); with no buffer or n = 0 no memory changes.
C9_BufferScrubbedResultPassed ==
    (wlast.op \in { "write", "sendto", "send" }) =>
        /\ Cardinality(Delegations) <= 1
        /\ \A i \in Delegations :
              /\ wlast.ev[i].fn = PrimitiveOf(wlast.op)
              /\ wlast.ev[i].buf = wlast.buf
              /\ wlast.ev[i].count = wlast.count
              /\ SameMemory(wlast.ev[i].mem, wlast.pre)
              /\ wlast.ret = wlast.ev[i].ret
        /\ IF Delegations = {}
           THEN ResolvedOf(wlast.op) = "default" /\ wlast.ret = -1 /\ errno = EINVAL
           ELSE ResolvedOf(wlast.op) = "libc"
        /\ IF wlast.buf # NULL /\ wlast.count > 0
           THEN /\ \A a \in Range(wlast.buf, wlast.count) : Byte(mem, a) = 0
                /\ \A a \in Mapped \ Range(wlast.buf, wlast.count) :
                      Byte(mem, a) = Byte(wlast.pre, a)
           ELSE SameMemory(mem, wlast.pre)

\* C9, its case reached: a send of data of which the real primitive took a part
C9_PartialSendSeen ==
    /\ wlast.op = "send"
    /\ wlast.buf # NULL
    /\ wlast.count = MaxLen
    /\ wlast.ret > 0 /\ wlast.ret < wlast.count
    /\ \A a \in Range(wlast.buf, wlast.count) : Byte(wlast.pre, a) # 0

\* the addresses of the segments of a message
SegmentBytes(msg) ==
    UNION { Range(msg.msg_iov[k].iov_base, msg.msg_iov[k].iov_len) :
            k \in 1 .. msg.msg_iovlen }

\* C10: sendmsg calls the real primitive, then every byte of every segment of
\* the message is zero, the memory outside the segments is unchanged, and the
\* primitive's result is returned.
C10_SendmsgZeroesEverySegment ==
    (wlast.op = "sendmsg" /\ ~wlast.msg.null) =>
        /\ \A a \in SegmentBytes(wlast.msg) : Byte(mem, a) = 0
        /\ \A a \in Mapped \ SegmentBytes(wlast.msg) : Byte(mem, a) = Byte(wlast.pre, a)
        /\ \A i \in Delegations : wlast.ret = wlast.ev[i].ret

\* C20: sendmsg with a null msg reads nothing through it and zeroes nothing: the
\* call completes, memory is unchanged and the real primitive's result is
\* returned.
C20_NullMessageNotRead ==
    (wlast.op = "sendmsg" /\ wlast.msg.null) =>
        /\ ~wlast.crashed
        /\ \A a \in Mapped : Byte(mem, a) = Byte(wlast.pre, a)
        /\ \A i \in Delegations : wlast.ret = wlast.ev[i].ret

====
